---- MODULE Spec2Model ----
(***************************************************************************)
(* Model of the ingestion core of personal-hub-template:                   *)
(*   api/collectors/base.py   BaseCollector.upsert_items,                  *)
(*                            insert_if_not_exists, update_sync_state,     *)
(*                            get_cursor                                   *)
(*   api/models.py            DataItem, SyncState                          *)
(*                                                                         *)
(* The two tables are sets of rows; the unique index and the primary key   *)
(* are not assumed, they are what ON CONFLICT looks rows up by.  Every     *)
(* handler is one action: its statements and its commit happen at one      *)
(* instant of the clock, and the clock advances with every call.           *)
(***************************************************************************)
EXTENDS Integers, Sequences, FiniteSets, TLC

VARIABLES
    data_items,   \* the committed rows of the table data_items
    sync_state,   \* the committed rows of the table sync_state
    clock,        \* the time of the latest call
    tx,           \* per session: the call that is between its first statement and its commit
    run,          \* per session: where the run(session) of its collector stands
    call,         \* the operation and the arguments of the latest call
    ret,          \* the value the latest call returned
    again,        \* the latest call has the operation and arguments of the one before it
    supplied,     \* per source: the latest cursor handed to update_sync_state, and when
    failed        \* the sources update_sync_state was handed an error for

vars == <<data_items, sync_state, clock, tx, run, call, ret, again, supplied, failed>>

(***************************************************************************)
(* Bounds of the model                                                     *)
(***************************************************************************)
\* longest input list handed to upsert_items / insert_if_not_exists
MaxLen == 3
\* number of calls in a behaviour of Spec
MaxItemCalls == 2
\* number of calls in a behaviour of SyncSpec
MaxSyncCalls == 3
\* number of calls in a behaviour of ConcSpec
MaxConcCalls == 2
\* number of run() calls in a behaviour of RunSpec
MaxRuns == 2
\* number of process_webhook_data calls in a behaviour of WebhookSpec
MaxHookCalls == 2
\* length of the metrics list of one call
MaxMetrics == 2
\* base.py:229 keeps str(e)[:500]; scaled down so that the messages of the
\* model are cut
ErrLimit == 2
\* base.py:109 sets batch_size = 2000; scaled down so that lists of MaxLen
\* records are written in more than one chunk
batch_size == 2

(***************************************************************************)
(* Values                                                                  *)
(***************************************************************************)
\* Python None / SQL NULL
None == "None"
\* the empty JSON document {} (server default of the JSONB columns)
EmptyDoc == "{}"
\* Python truthiness of an Optional[dict]: None and {} are falsy
Falsy(d) == d = None \/ d = EmptyDoc

\* dict.get(col, default)
Get(row, col, default) == IF col \in DOMAIN row THEN row[col] ELSE default

\* a synced_at value a caller may put into a record; earlier than any write
ClientTime == 0

\* a record with every client column (the docstring example of BaseCollector)
FullItem(k, v) ==
    [source     |-> k[1],
     source_id  |-> k[2],
     category   |-> IF v = 1 THEN "health" ELSE "work",
     item_type  |-> IF v = 1 THEN "steps" ELSE "task",
     title      |-> IF v = 1 THEN "A" ELSE "B",
     content    |-> IF v = 1 THEN "a" ELSE None,
     metadata_  |-> IF v = 1 THEN "m1" ELSE "m2",
     tags       |-> IF v = 1 THEN <<"x">> ELSE <<>>,
     is_public  |-> (v = 2),
     source_url |-> IF v = 1 THEN "u1" ELSE None,
     created_at |-> 10 * v]

\* a record that also carries its own synced_at
StampedItem(k) ==
    [c \in DOMAIN FullItem(k, 1) \cup {"synced_at"} |->
        IF c = "synced_at" THEN ClientTime ELSE FullItem(k, 1)[c]]

\* a record with the NOT NULL columns only
MinimalItem(k) ==
    [source     |-> k[1],
     source_id  |-> k[2],
     category   |-> "work",
     item_type  |-> "task",
     created_at |-> 30]

\* the records callers hand in: two contents for one key, and keys that share
\* the source or the source_id with it
FullItems ==
    {FullItem(<<"s1", "k1">>, 1), FullItem(<<"s1", "k1">>, 2),
     FullItem(<<"s1", "k2">>, 1), FullItem(<<"s2", "k1">>, 2)}
StampedItems == {StampedItem(<<"s1", "k2">>)}
MinimalItems == {MinimalItem(<<"s2", "k1">>)}

SeqsUpTo(S, n) == UNION {[1..m -> S] : m \in 0..n}

\* the lists a caller passes: every dict of one list has the same columns,
\* as pg_insert(...).values(list) takes its columns from the list
Batches ==
    SeqsUpTo(FullItems, MaxLen) \cup SeqsUpTo(StampedItems, MaxLen)
        \cup SeqsUpTo(MinimalItems, MaxLen)

(***************************************************************************)
(* upsert_items / insert_if_not_exists                                     *)
(***************************************************************************)
\* key = (item["source"], item["source_id"])
KeyOf(item) == <<item.source, item.source_id>>

\* the keys of the dict `seen`, in insertion order (first occurrence)
RECURSIVE SeenKeys(_)
SeenKeys(items) ==
    IF items = <<>> THEN <<>>
    ELSE LET front == SeenKeys(SubSeq(items, 1, Len(items) - 1))
             k     == KeyOf(items[Len(items)])
         IN  IF \E i \in 1..Len(front) : front[i] = k
             THEN front ELSE Append(front, k)

\* variant: the first item with the key is kept (if key not in seen)
SeenValueFirst(items, k) ==
    items[CHOOSE i \in 1..Len(items) :
            /\ KeyOf(items[i]) = k
            /\ \A j \in 1..(i - 1) : KeyOf(items[j]) # k]

\* seen[key]: every later item with the key overwrote the earlier one
SeenValue(items, k) ==
    items[CHOOSE i \in 1..Len(items) :
            /\ KeyOf(items[i]) = k
            /\ \A j \in (i + 1)..Len(items) : KeyOf(items[j]) # k]

\* row = dict(item); the key metadata_ (or metadata) becomes the column
PrepareRow(item) ==
    IF "metadata_" \in DOMAIN item
    THEN [c \in (DOMAIN item \ {"metadata_"}) \cup {"metadata"} |->
            IF c = "metadata" THEN item["metadata_"] ELSE item[c]]
    ELSE item

\* db_items: one prepared row per value of `seen`
DbItems(items) ==
    LET keys == SeenKeys(items)
    IN  [i \in 1..Len(keys) |-> PrepareRow(SeenValue(items, keys[i]))]

\* the row proposed for insertion (EXCLUDED): the supplied columns, and the
\* server defaults of models.py for the others; gen_random_uuid() is a value
\* no other row has, here the time of the call and the number of the row
Proposed(table, row, now) ==
    [id         |-> <<now, Cardinality(table) + 1>>,
     source     |-> row.source,
     source_id  |-> row.source_id,
     category   |-> row.category,
     item_type  |-> row.item_type,
     title      |-> Get(row, "title", None),
     content    |-> Get(row, "content", None),
     metadata   |-> Get(row, "metadata", EmptyDoc),
     tags       |-> Get(row, "tags", <<>>),
     is_public  |-> Get(row, "is_public", FALSE),
     source_url |-> Get(row, "source_url", None),
     created_at |-> row.created_at,
     synced_at  |-> Get(row, "synced_at", now)]

\* the rows that conflict on index_elements = ["source", "source_id"]
Conflict(table, ex) ==
    {r \in table : r.source = ex.source /\ r.source_id = ex.source_id}

\* variant: set_ also lists category and item_type
DoUpdateAll(r, ex, now) ==
    [r EXCEPT !.category   = ex.category,
              !.item_type  = ex.item_type,
              !.title      = ex.title,
              !.content    = ex.content,
              !.metadata   = ex.metadata,
              !.tags       = ex.tags,
              !.is_public  = ex.is_public,
              !.source_url = ex.source_url,
              !.created_at = ex.created_at,
              !.synced_at  = now]

\* variant: tags are appended to the stored tags
DoUpdateMergeTags(r, ex, now) ==
    [r EXCEPT !.title      = ex.title,
              !.content    = ex.content,
              !.metadata   = ex.metadata,
              !.tags       = @ \o ex.tags,
              !.is_public  = ex.is_public,
              !.source_url = ex.source_url,
              !.created_at = ex.created_at,
              !.synced_at  = now]

\* on_conflict_do_update(set_ = {...})
DoUpdate(r, ex, now) ==
    [r EXCEPT !.title      = ex.title,
              !.content    = ex.content,
              !.metadata   = ex.metadata,
              !.tags       = ex.tags,
              !.is_public  = ex.is_public,
              !.source_url = ex.source_url,
              !.created_at = ex.created_at,
              !.synced_at  = now]

\* variant: the conflicting row is touched
DoNothingTouch(r, ex, now) == [r EXCEPT !.synced_at = now]

\* on_conflict_do_nothing
DoNothing(r, ex, now) == r

\* one row of INSERT ... ON CONFLICT; mode is "update" or "nothing"
WriteRow(table, row, now, mode) ==
    LET ex   == Proposed(table, row, now)
        conf == Conflict(table, ex)
    IN  IF conf = {} THEN table \cup {ex}
        ELSE (table \ conf) \cup
               {IF mode = "update" THEN DoUpdate(r, ex, now)
                                   ELSE DoNothing(r, ex, now) : r \in conf}

\* session.execute(stmt) for one batch
RECURSIVE Execute(_, _, _, _)
Execute(table, batch, now, mode) ==
    IF batch = <<>> THEN table
    ELSE Execute(WriteRow(table, Head(batch), now, mode), Tail(batch), now, mode)

\* variant: the slice ends one row early (db_items[i : i + batch_size - 1])
BatchShort(db_items, i) ==
    SubSeq(db_items, i + 1,
           IF i + batch_size - 1 < Len(db_items) THEN i + batch_size - 1
                                                 ELSE Len(db_items))

\* for i in range(0, len(db_items), batch_size): batch = db_items[i : i + batch_size]
Batch(db_items, i) ==
    SubSeq(db_items, i + 1,
           IF i + batch_size < Len(db_items) THEN i + batch_size ELSE Len(db_items))

RECURSIVE WriteBatches(_, _, _, _, _)
WriteBatches(table, db_items, i, now, mode) ==
    IF i >= Len(db_items) THEN table
    ELSE WriteBatches(Execute(table, Batch(db_items, i), now, mode),
                      db_items, i + batch_size, now, mode)

\* variant: the number of rows written is returned
ReturnedDistinct(items) == Len(DbItems(items))

\* the value upsert_items and insert_if_not_exists return
Returned(items) == Len(items)

\* the table after the call commits
Written(table, items, now, mode) ==
    IF items = <<>> THEN table
    ELSE WriteBatches(table, DbItems(items), 0, now, mode)

ItemCall(op, mode, items) ==
    /\ clock < MaxItemCalls
    /\ clock' = clock + 1
    /\ call' = [op |-> op, items |-> items]
    /\ again' = (call = [op |-> op, items |-> items])
    /\ data_items' = Written(data_items, items, clock + 1, mode)
    /\ ret' = IF items = <<>> THEN 0 ELSE Returned(items)
    /\ UNCHANGED <<sync_state, tx, run, supplied, failed>>

upsert_items == \E items \in Batches : ItemCall("upsert_items", "update", items)

insert_if_not_exists ==
    \E items \in Batches : ItemCall("insert_if_not_exists", "nothing", items)

(***************************************************************************)
(* update_sync_state / get_cursor                                          *)
(***************************************************************************)
Sources  == {"s1", "s2"}
Statuses == {"idle", "running", "error"}
Errors   == {None, "boom"}
Counts   == {0, 2}
Cursors  == {None, EmptyDoc, "c1"}

\* pg_insert(SyncState).values(...): the row proposed for insertion
SyncProposed(src, now, status, error, items_synced, cursor) ==
    [source        |-> src,
     last_sync_at  |-> now,
     next_sync_at  |-> None,
     cursor        |-> IF Falsy(cursor) THEN EmptyDoc ELSE cursor,
     status        |-> status,
     error_message |-> error,
     items_synced  |-> items_synced]

\* variant: set_ always lists cursor
SyncDoUpdateCursor(r, now, status, error, items_synced, cursor) ==
    [r EXCEPT !.last_sync_at  = now,
              !.status        = status,
              !.error_message = error,
              !.items_synced  = items_synced,
              !.cursor        = IF Falsy(cursor) THEN EmptyDoc ELSE cursor]

\* variant: error_message is only written when an error is given
SyncDoUpdateKeepError(r, now, status, error, items_synced, cursor) ==
    [r EXCEPT !.last_sync_at  = now,
              !.status        = status,
              !.error_message = IF error # None THEN error ELSE @,
              !.items_synced  = items_synced,
              !.cursor        = IF cursor # None THEN cursor ELSE @]

\* on_conflict_do_update(index_elements=["source"], set_={...})
SyncDoUpdate(r, now, status, error, items_synced, cursor) ==
    [r EXCEPT !.last_sync_at  = now,
              !.status        = status,
              !.error_message = error,
              !.items_synced  = items_synced,
              !.cursor        = IF cursor # None THEN cursor ELSE @]

\* variant: a stored row is left as it is (on_conflict_do_nothing)
SyncWrittenInsertOnly(table, src, now, status, error, items_synced, cursor) ==
    IF \E r \in table : r.source = src
    THEN table
    ELSE table \cup {SyncProposed(src, now, status, error, items_synced, cursor)}

\* variant: the conflict target does not tell the sources apart
SyncWrittenAnyRow(table, src, now, status, error, items_synced, cursor) ==
    IF table = {}
    THEN {SyncProposed(src, now, status, error, items_synced, cursor)}
    ELSE {SyncDoUpdate(r, now, status, error, items_synced, cursor) : r \in table}

\* the table after update_sync_state commits
SyncWritten(table, src, now, status, error, items_synced, cursor) ==
    LET conf == {r \in table : r.source = src}
    IN  IF conf = {}
        THEN table \cup {SyncProposed(src, now, status, error, items_synced, cursor)}
        ELSE (table \ conf) \cup
               {SyncDoUpdate(r, now, status, error, items_synced, cursor) : r \in conf}

update_sync_state ==
    \E src \in Sources, status \in Statuses, error \in Errors,
       items_synced \in Counts, cursor \in Cursors :
        /\ clock < MaxSyncCalls
        /\ clock' = clock + 1
        /\ call' = [op |-> "update_sync_state", source |-> src, status |-> status,
                    error |-> error, items_synced |-> items_synced, cursor |-> cursor]
        /\ sync_state' = SyncWritten(sync_state, src, clock + 1, status, error,
                                     items_synced, cursor)
        /\ ret' = None
        /\ supplied' = IF cursor # None
                       THEN [supplied EXCEPT ![src] = [cursor |-> cursor, at |-> clock + 1]]
                       ELSE supplied
        /\ failed' = IF error # None THEN failed \cup {src} ELSE failed
        /\ UNCHANGED <<data_items, tx, run, again>>

\* select(SyncState.cursor).where(SyncState.source == self.source),
\* result.scalar_one_or_none()
ScalarOneOrNone(table, src) ==
    LET cs == {r.cursor : r \in {x \in table : x.source = src}}
    IN  IF cs = {} THEN None ELSE CHOOSE c \in cs : TRUE

\* variant: the row is returned as it is
RowAsIs(row) == row

\* return row or {}
RowOrEmpty(row) == IF Falsy(row) THEN EmptyDoc ELSE row

get_cursor ==
    \E src \in Sources :
        /\ clock < MaxSyncCalls
        /\ clock' = clock + 1
        /\ call' = [op |-> "get_cursor", source |-> src]
        /\ ret' = RowOrEmpty(ScalarOneOrNone(sync_state, src))
        /\ UNCHANGED <<data_items, sync_state, tx, run, again, supplied, failed>>

(***************************************************************************)
(* upsert_items / insert_if_not_exists of two sessions, statement by       *)
(* statement.  A session's statements see the committed rows and its own   *)
(* writes; its writes reach the table at session.commit().  With three     *)
(* keys and batches of batch_size rows two sessions never wait for each    *)
(* other in a cycle, so no statement is ended by a deadlock.               *)
(***************************************************************************)
\* database.py: one AsyncSession per request
Sessions == {1, 2}

IdleTx ==
    [pc |-> "idle", mode |-> "none", db_items |-> <<>>, i |-> 0, now |-> 0,
     del |-> {}, add |-> {}]

\* the rows the statements of session s see
View(s) == (data_items \ tx[s].del) \cup tx[s].add

\* variant: the index on (source, source_id) is not unique
NeverBlocked(s, batch) == FALSE

\* Index("uq_source_source_id", ..., unique=True): a statement that writes a
\* key another session has written and not yet committed waits for it
Blocked(s, batch) ==
    \E t \in Sessions \ {s} :
        \E j \in 1..Len(batch) :
            \E r \in tx[t].add :
                r.source = batch[j].source /\ r.source_id = batch[j].source_id

\* the lists the two sessions pass: one record for each of the three keys
ConcBatches ==
    SeqsUpTo({FullItem(<<"s1", "k1">>, 2), FullItem(<<"s1", "k2">>, 1),
              FullItem(<<"s2", "k1">>, 2)}, MaxLen)

\* the call up to its first statement: early return, dedup, db_items
BeginCall(s, mode, items) ==
    /\ clock < MaxConcCalls
    /\ tx[s].pc = "idle"
    /\ clock' = clock + 1
    /\ tx' = IF items = <<>> THEN tx
             ELSE [tx EXCEPT ![s] = [pc |-> "execute", mode |-> mode,
                                     db_items |-> DbItems(items), i |-> 0,
                                     now |-> clock + 1, del |-> {}, add |-> {}]]
    /\ UNCHANGED <<data_items, sync_state, run, call, ret, again, supplied, failed>>

begin_upsert_items ==
    \E s \in Sessions, items \in ConcBatches : BeginCall(s, "update", items)

begin_insert_if_not_exists ==
    \E s \in Sessions, items \in ConcBatches : BeginCall(s, "nothing", items)

\* await session.execute(stmt) for the batch at i
execute_batch ==
    \E s \in Sessions :
        /\ tx[s].pc = "execute"
        /\ tx[s].i < Len(tx[s].db_items)
        /\ ~Blocked(s, Batch(tx[s].db_items, tx[s].i))
        /\ LET after == Execute(View(s), Batch(tx[s].db_items, tx[s].i),
                                tx[s].now, tx[s].mode)
           IN  tx' = [tx EXCEPT ![s].i   = @ + batch_size,
                                ![s].del = data_items \ after,
                                ![s].add = after \ data_items]
        /\ UNCHANGED <<data_items, sync_state, clock, run, call, ret, again, supplied, failed>>

\* await session.commit()
commit ==
    \E s \in Sessions :
        /\ tx[s].pc = "execute"
        /\ tx[s].i >= Len(tx[s].db_items)
        /\ data_items' = View(s)
        /\ tx' = [tx EXCEPT ![s] = IdleTx]
        /\ UNCHANGED <<sync_state, clock, run, call, ret, again, supplied, failed>>

(***************************************************************************)
(* upsert_items / insert_if_not_exists on lists with malformed records     *)
(***************************************************************************)
\* a dict without the key c
Without(rec, c) == [x \in DOMAIN rec \ {c} |-> rec[x]]

\* lists in which records lack source or source_id
AnyBatches ==
    SeqsUpTo({FullItem(<<"s1", "k1">>, 1), FullItem(<<"s1", "k2">>, 1),
              Without(FullItem(<<"s1", "k1">>, 2), "source"),
              Without(FullItem(<<"s1", "k2">>, 1), "source_id")}, MaxLen)

\* key = (item["source"], item["source_id"]) raises KeyError
MissingKey(items) ==
    \E i \in 1..Len(items) :
        "source" \notin DOMAIN items[i] \/ "source_id" \notin DOMAIN items[i]

\* variant: records without a key are skipped (item.get(...), continue)
AcceptedWellFormed(items) ==
    SelectSeq(items, LAMBDA it : "source" \in DOMAIN it /\ "source_id" \in DOMAIN it)

\* the records that reach the statements: the dedup loop runs over the whole
\* list before the first statement, and its KeyError ends the call
Accepted(items) == IF MissingKey(items) THEN <<>> ELSE items

\* the call; ret is "KeyError" when the call raised it
ItemCallAny(op, mode, items) ==
    /\ clock < MaxItemCalls
    /\ clock' = clock + 1
    /\ call' = [op |-> op, items |-> items]
    /\ again' = (call = [op |-> op, items |-> items])
    /\ data_items' = Written(data_items, Accepted(items), clock + 1, mode)
    /\ ret' = IF items = <<>> THEN 0
              ELSE IF MissingKey(items) THEN "KeyError" ELSE Returned(items)
    /\ UNCHANGED <<sync_state, tx, run, supplied, failed>>

upsert_items_any ==
    \E items \in AnyBatches : ItemCallAny("upsert_items", "update", items)

insert_if_not_exists_any ==
    \E items \in AnyBatches : ItemCallAny("insert_if_not_exists", "nothing", items)

(***************************************************************************)
(* run: update_sync_state("running"), collect, update_sync_state("idle")   *)
(* or, in the except branch, update_sync_state("error").  Each session     *)
(* runs the collector of one source.  collect is the documented pattern:   *)
(* at most one upsert_items call, whose count it returns; it can raise on  *)
(* its own before or after the upsert, and a statement of the upsert can   *)
(* fail.  A failed statement leaves the transaction of the session         *)
(* aborted: no code path calls session.rollback(), so every later          *)
(* statement of the session fails as well.                                 *)
(***************************************************************************)
\* source: str, the class attribute of the collector a session runs
CollectorSource(w) == run[w].source

\* the lists collect hands to upsert_items: none, one record, two records of
\* one key, three keys
CollectBatches(src) ==
    {<<>>,
     <<FullItem(<<src, "k1">>, 1)>>,
     <<FullItem(<<src, "k1">>, 1), FullItem(<<src, "k1">>, 2)>>,
     <<FullItem(<<src, "k1">>, 1), FullItem(<<src, "k2">>, 1),
       FullItem(<<src, "k3">>, 2)>>}

\* str(e) of the exceptions collect raises on its own
Msgs == {"", "ab", "abcd"}
\* str(e) of a failed statement
DbError == "db"

\* the strings of the model and their characters
Strings == {"", "a", "ab", "abc", "abcd", "d", "db"}
Text(str) ==
    CASE str = ""     -> <<>>
      [] str = "a"    -> <<"a">>
      [] str = "ab"   -> <<"a", "b">>
      [] str = "abc"  -> <<"a", "b", "c">>
      [] str = "abcd" -> <<"a", "b", "c", "d">>
      [] str = "d"    -> <<"d">>
      [] str = "db"   -> <<"d", "b">>
Str(chars) == CHOOSE str \in Strings : Text(str) = chars

\* str(e)[:500]
Truncate(msg) ==
    Str(SubSeq(Text(msg), 1,
               IF Len(Text(msg)) < ErrLimit THEN Len(Text(msg)) ELSE ErrLimit))

\* variant: the count is not passed on (items_synced keeps its default)
IdleCountDefault(count) == 0

\* items_synced=count of the update after collect returned
IdleCount(count) == count

NoRun(src) ==
    [source |-> src, pc |-> "idle", count |-> 0, kind |-> "none", exc |-> "",
     upserted |-> FALSE, keys |-> {}, at |-> 0,
     before |-> -1, result |-> "none", runs |-> 0]

\* items_synced of the row of a source, -1 when there is none
ItemsSynced(table, src) ==
    IF \E r \in table : r.source = src
    THEN (CHOOSE r \in table : r.source = src).items_synced
    ELSE -1

RunsStarted == run[1].runs + run[2].runs

\* run is entered with a session of its own (database.py get_db); its first
\* statement is update_sync_state(session, status="running")
run_start ==
    \E w \in Sessions :
        /\ run[w].pc \in {"idle", "done"}
        /\ RunsStarted < MaxRuns
        /\ clock' = clock + 1
        /\ sync_state' = SyncWritten(sync_state, CollectorSource(w), clock + 1,
                                     "running", None, 0, None)
        /\ tx' = [tx EXCEPT ![w] = IdleTx]
        /\ run' = [run EXCEPT ![w] =
                      [source |-> run[w].source,
                       pc |-> "collect", count |-> 0, kind |-> "none", exc |-> "",
                       upserted |-> FALSE, keys |-> {}, at |-> 0,
                       before |-> ItemsSynced(sync_state, CollectorSource(w)),
                       result |-> "none", runs |-> run[w].runs + 1]]
        /\ UNCHANGED <<data_items, call, ret, again, supplied, failed>>

\* the statement of update_sync_state(session, status="running") raises: the
\* call stands before the try, the exception leaves run
run_start_fails ==
    \E w \in Sessions :
        /\ run[w].pc \in {"idle", "done"}
        /\ RunsStarted < MaxRuns
        /\ tx' = [tx EXCEPT ![w] = [IdleTx EXCEPT !.pc = "aborted"]]
        /\ run' = [run EXCEPT ![w] =
                      [source |-> run[w].source,
                       pc |-> "done", count |-> 0, kind |-> "sync", exc |-> DbError,
                       upserted |-> FALSE, keys |-> {}, at |-> 0,
                       before |-> ItemsSynced(sync_state, CollectorSource(w)),
                       result |-> "raised", runs |-> run[w].runs + 1]]
        /\ UNCHANGED <<data_items, sync_state, clock, call, ret, again, supplied, failed>>

\* count = await self.upsert_items(session, data_items), up to the first
\* statement; count is len(items), which the call returns after its commit
collect_upsert ==
    \E w \in Sessions :
        \E items \in CollectBatches(CollectorSource(w)) :
            /\ run[w].pc = "collect"
            /\ ~run[w].upserted
            /\ clock' = clock + 1
            /\ tx' = IF items = <<>> THEN tx
                     ELSE [tx EXCEPT ![w] = [pc |-> "execute", mode |-> "update",
                                             db_items |-> DbItems(items), i |-> 0,
                                             now |-> clock + 1, del |-> {}, add |-> {}]]
            /\ run' = [run EXCEPT ![w].upserted = TRUE,
                                  ![w].keys = {KeyOf(items[i]) : i \in 1..Len(items)},
                                  ![w].at = clock + 1,
                                  ![w].count = IF items = <<>> THEN 0 ELSE Returned(items)]
            /\ UNCHANGED <<data_items, sync_state, call, ret, again, supplied, failed>>

\* await session.execute(stmt) raises: the exception leaves upsert_items and
\* collect, the transaction of the session is aborted
execute_fails ==
    \E w \in Sessions :
        /\ run[w].pc = "collect"
        /\ tx[w].pc = "execute"
        /\ tx[w].i < Len(tx[w].db_items)
        /\ tx' = [tx EXCEPT ![w].pc = "aborted"]
        /\ run' = [run EXCEPT ![w].pc = "raised", ![w].kind = "db", ![w].exc = DbError]
        /\ UNCHANGED <<data_items, sync_state, clock, call, ret, again, supplied, failed>>

\* collect raises on its own, outside upsert_items
collect_raise ==
    \E w \in Sessions, msg \in Msgs :
        /\ run[w].pc = "collect"
        /\ tx[w].pc = "idle"
        /\ run' = [run EXCEPT ![w].pc = "raised", ![w].kind = "app", ![w].exc = msg]
        /\ UNCHANGED <<data_items, sync_state, clock, tx, call, ret, again, supplied, failed>>

\* variant: collect returns while the transaction of its upsert is open
collect_return_uncommitted ==
    \E w \in Sessions :
        /\ run[w].pc = "collect"
        /\ tx[w].pc \in {"idle", "execute"}
        /\ run' = [run EXCEPT ![w].pc = "returned"]
        /\ UNCHANGED <<data_items, sync_state, clock, tx, call, ret, again, supplied, failed>>

\* collect returns count
collect_return ==
    \E w \in Sessions :
        /\ run[w].pc = "collect"
        /\ tx[w].pc = "idle"
        /\ run' = [run EXCEPT ![w].pc = "returned"]
        /\ UNCHANGED <<data_items, sync_state, clock, tx, call, ret, again, supplied, failed>>

\* await self.update_sync_state(session, status="idle", items_synced=count)
run_success ==
    \E w \in Sessions :
        /\ run[w].pc = "returned"
        /\ clock' = clock + 1
        /\ sync_state' = SyncWritten(sync_state, CollectorSource(w), clock + 1,
                                     "idle", None, IdleCount(run[w].count), None)
        /\ run' = [run EXCEPT ![w].pc = "done", ![w].result = "normal"]
        /\ UNCHANGED <<data_items, tx, call, ret, again, supplied, failed>>

\* except Exception as e:
\*     await self.update_sync_state(session, status="error", error=str(e)[:500])
\* on a session whose transaction is aborted the statement of the update
\* raises, and that exception leaves run
run_except ==
    \E w \in Sessions :
        /\ run[w].pc = "raised"
        /\ IF tx[w].pc = "aborted"
           THEN /\ run' = [run EXCEPT ![w].pc = "done", ![w].result = "raised"]
                /\ UNCHANGED <<sync_state, clock, failed>>
           ELSE /\ clock' = clock + 1
                /\ sync_state' = SyncWritten(sync_state, CollectorSource(w), clock + 1,
                                             "error", Truncate(run[w].exc), 0, None)
                /\ failed' = failed \cup {CollectorSource(w)}
                /\ run' = [run EXCEPT ![w].pc = "done", ![w].result = "normal"]
        /\ UNCHANGED <<data_items, tx, call, ret, again, supplied>>

(***************************************************************************)
(* process_webhook_data (example_health.py).  A date string is the         *)
(* sequence of its parts: a calendar date, the letter T, a time of day, an  *)
(* offset; a JSON value is a string or null.  A datetime is the record of  *)
(* its date, time of day and offset, the text of an f-string the tuple of  *)
(* its pieces.                                                             *)
(***************************************************************************)
JsonStr(parts) == [str |-> parts]
JsonNull == [null |-> TRUE]

Days == {"2026-02-21"}
Times == {"00:00:00", "10:30:00", "10:30:59", "11:30:00"}
Offsets == {"+00:00", "+01:00"}

\* "T" in date_str; TypeError when date_str is None
ContainsT(date) == \E i \in 1..Len(date.str) : date.str[i] = "T"

\* date_str.replace("Z", "+00:00")
ReplaceZ(parts) == [i \in 1..Len(parts) |-> IF parts[i] = "Z" THEN "+00:00" ELSE parts[i]]

\* datetime.fromisoformat: the datetime, or ValueError
fromisoformat(parts) ==
    IF /\ Len(parts) = 4
       /\ parts[1] \in Days /\ parts[2] = "T"
       /\ parts[3] \in Times /\ parts[4] \in Offsets
    THEN [day |-> parts[1], time |-> parts[3], off |-> parts[4]]
    ELSE [error |-> "ValueError"]

\* the try block of the loop: created_at, or the exception that is caught
ParseDate(metric) ==
    LET date_str == Get(metric, "date", JsonStr(<<>>))
    IN  IF "str" \notin DOMAIN date_str THEN [error |-> "TypeError"]
        ELSE IF ContainsT(date_str)
             THEN fromisoformat(ReplaceZ(date_str.str))
             ELSE fromisoformat(date_str.str \o <<"T", "00:00:00", "+00:00">>)

\* str.lower()
Lower(str) ==
    CASE str = "HeartRate" -> "heartrate"
      [] str = "StepCount" -> "stepcount"
      [] str = "Unknown"   -> "unknown"

\* created_at.strftime('%Y%m%d-%H%M'): the digits of the date and of the hour
\* and minute as the datetime carries them; seconds and offset are dropped
strftime(created_at) ==
    <<CASE created_at.day = "2026-02-21" -> "20260221",
      "-",
      CASE created_at.time = "00:00:00" -> "0000"
        [] created_at.time = "10:30:00" -> "1030"
        [] created_at.time = "10:30:59" -> "1030"
        [] created_at.time = "11:30:00" -> "1130">>

\* variant: the id keeps the whole time of day
SourceIdSeconds(metric_type, created_at) ==
    <<Lower(metric_type), "-", created_at.day, created_at.time>>

\* f"{metric_type.lower()}-{created_at.strftime('%Y%m%d-%H%M')}"
SourceId(metric_type, created_at) ==
    <<Lower(metric_type), "-">> \o strftime(created_at)

\* the dict appended to items for one metric
WebhookItem(metric) ==
    LET created_at  == ParseDate(metric)
        metric_type == Get(metric, "type", "Unknown")
        value       == Get(metric, "value", None)
        unit        == Get(metric, "unit", "")
    IN  [source     |-> "health-webhook",
         source_id  |-> SourceId(metric_type, created_at),
         category   |-> "health",
         item_type  |-> Lower(metric_type),
         title      |-> <<metric_type, ": ", value, " ", unit>>,
         content    |-> None,
         metadata_  |-> [value |-> value, unit |-> unit, type |-> metric_type,
                         device |-> Get(metric, "source", "Unknown"), raw |-> metric],
         tags       |-> <<"health", "webhook", Lower(metric_type)>>,
         is_public  |-> FALSE,
         source_url |-> None,
         created_at |-> created_at]

\* variant: a date that does not parse ends the call with nothing written
WebhookItemsOrFail(metrics) ==
    IF \E i \in 1..Len(metrics) : "error" \in DOMAIN ParseDate(metrics[i])
    THEN <<>>
    ELSE [i \in 1..Len(metrics) |-> WebhookItem(metrics[i])]

\* items after the loop: one dict per metric whose date parsed (continue
\* skips the others)
WebhookItems(metrics) ==
    LET parsed == SelectSeq(metrics, LAMBDA m : "error" \notin DOMAIN ParseDate(m))
    IN  [i \in 1..Len(parsed) |-> WebhookItem(parsed[i])]

Metric(type, value, date) ==
    [type |-> type, value |-> value, unit |-> "u", date |-> date, source |-> "watch"]

\* the payloads delivered: a minute, the same minute a few seconds later, the
\* same instant in another offset, a date alone (without unit and source), a
\* date that is none, one that is garbage, null, and no date
Metrics ==
    {Metric("HeartRate", 68, JsonStr(<<"2026-02-21", "T", "10:30:00", "Z">>)),
     Metric("HeartRate", 70, JsonStr(<<"2026-02-21", "T", "10:30:59", "Z">>)),
     Metric("HeartRate", 72, JsonStr(<<"2026-02-21", "T", "11:30:00", "+01:00">>)),
     [type |-> "StepCount", value |-> 100, date |-> JsonStr(<<"2026-02-21">>)],
     Metric("StepCount", 5, JsonStr(<<"2026-13-45">>)),
     Metric("HeartRate", 5, JsonStr(<<"x", "T", "y">>)),
     Metric("StepCount", 5, JsonNull),
     Without(Metric("StepCount", 5, JsonNull), "date")}

\* count = await collector.upsert_items(session, items); return count
process_webhook_data ==
    \E metrics \in SeqsUpTo(Metrics, MaxMetrics) :
        /\ clock < MaxHookCalls
        /\ clock' = clock + 1
        /\ call' = [op |-> "process_webhook_data", metrics |-> metrics]
        /\ data_items' = Written(data_items, WebhookItems(metrics), clock + 1, "update")
        /\ ret' = IF WebhookItems(metrics) = <<>> THEN 0
                  ELSE Returned(WebhookItems(metrics))
        /\ UNCHANGED <<sync_state, tx, run, again, supplied, failed>>

(***************************************************************************)
(* Specifications                                                          *)
(***************************************************************************)
Init ==
    /\ data_items = {}
    /\ sync_state = {}
    /\ clock = 0
    /\ tx = [s \in Sessions |-> IdleTx]
    /\ run = [s \in Sessions |-> NoRun(IF s = 1 THEN "s1" ELSE "s2")]
    /\ call = [op |-> "none"]
    /\ ret = None
    /\ again = FALSE
    /\ supplied = [s \in Sources |-> [cursor |-> None, at |-> 0]]
    /\ failed = {}

\* calls of the upsert engine
Next == upsert_items \/ insert_if_not_exists

Spec == Init /\ [][Next]_vars

\* calls of the sync-state tracker
SyncNext == update_sync_state \/ get_cursor

SyncSpec == Init /\ [][SyncNext]_vars

\* calls of the upsert engine from two sessions
ConcNext ==
    begin_upsert_items \/ begin_insert_if_not_exists \/ execute_batch \/ commit

ConcSpec == Init /\ [][ConcNext]_vars

\* calls of the upsert engine with lists that may hold malformed records
AnyNext == upsert_items_any \/ insert_if_not_exists_any

AnySpec == Init /\ [][AnyNext]_vars

\* runs of the collectors of two sources
RunNext ==
    \/ run_start \/ run_start_fails \/ collect_upsert \/ execute_batch \/ execute_fails \/ commit
    \/ collect_raise \/ collect_return \/ run_success \/ run_except

RunSpec == Init /\ [][RunNext]_vars

\* run is a coroutine that is awaited: once collect has returned or raised,
\* the statement that follows it is executed
RunLiveSpec ==
    Init /\ [][RunNext]_vars /\ WF_vars(run_success) /\ WF_vars(run_except)

\* two sessions run the collector of one source, nothing keeps their runs apart
SameInit ==
    /\ data_items = {}
    /\ sync_state = {}
    /\ clock = 0
    /\ tx = [s \in Sessions |-> IdleTx]
    /\ run = [s \in Sessions |-> NoRun("s1")]
    /\ call = [op |-> "none"]
    /\ ret = None
    /\ again = FALSE
    /\ supplied = [s \in Sources |-> [cursor |-> None, at |-> 0]]
    /\ failed = {}

SameSpec == SameInit /\ [][RunNext]_vars

\* deliveries to the health webhook
WebhookNext == process_webhook_data

WebhookSpec == Init /\ [][WebhookNext]_vars

(***************************************************************************)
(* Properties                                                              *)
(***************************************************************************)
\* the step is one call of the operation op
IsCall(op) == clock' = clock + 1 /\ call'.op = op

\* the keys that occur in a list
KeysIn(items) == {<<items[i].source, items[i].source_id>> : i \in 1..Len(items)}

\* the rows of a table stored under a key
RowsAt(table, k) == {r \in table : <<r.source, r.source_id>> = k}

\* the last record of a list that carries the key k
LastRecord(items, k) ==
    LET at == {i \in 1..Len(items) : <<items[i].source, items[i].source_id>> = k}
    IN  items[CHOOSE i \in at : \A j \in at : j <= i]

\* the column a key of an input dict is written to
ColumnOf(c) == IF c = "metadata_" THEN "metadata" ELSE c

\* the row holds every column the record supplies (synced_at is the engine's)
Holds(row, rec) ==
    \A c \in DOMAIN rec \ {"synced_at"} : row[ColumnOf(c)] = rec[c]

\* the value a record supplies for a column, or the column's default
Supplied(rec, c, default) ==
    IF c \in DOMAIN rec THEN rec[c]
    ELSE IF c = "metadata" /\ "metadata_" \in DOMAIN rec THEN rec["metadata_"]
    ELSE default

\* the row holds the record in the seven columns an upsert replaces
HoldsReplaced(row, rec) ==
    /\ row.title      = Supplied(rec, "title", None)
    /\ row.content    = Supplied(rec, "content", None)
    /\ row.metadata   = Supplied(rec, "metadata", EmptyDoc)
    /\ row.tags       = Supplied(rec, "tags", <<>>)
    /\ row.is_public  = Supplied(rec, "is_public", FALSE)
    /\ row.source_url = Supplied(rec, "source_url", None)
    /\ row.created_at = rec.created_at

\* the columns an upsert never replaces
SameIdentity(r1, r2) ==
    /\ r1.id = r2.id
    /\ r1.source = r2.source
    /\ r1.source_id = r2.source_id
    /\ r1.category = r2.category
    /\ r1.item_type = r2.item_type

\* C1 as stated: after upsert_items, every key of the list has exactly one
\* row, and that row holds the last record of the list for the key.
C1_LastRecordHeld ==
    [][IsCall("upsert_items") =>
        \A k \in KeysIn(call'.items) :
            /\ Cardinality(RowsAt(data_items', k)) = 1
            /\ \A r \in RowsAt(data_items', k) : Holds(r, LastRecord(call'.items, k))]_vars

\* C1 as amended: after upsert_items, every key of the list has exactly one
\* row; the row holds the last record of the list for the key in title,
\* content, metadata, tags, is_public, source_url and created_at; it holds
\* the record's category and item_type when the key was not stored before
\* the call, and the stored row's category and item_type when it was.
C1_LastWriteWins ==
    [][IsCall("upsert_items") =>
        \A k \in KeysIn(call'.items) :
            /\ Cardinality(RowsAt(data_items', k)) = 1
            /\ \A r \in RowsAt(data_items', k) :
                LET rec == LastRecord(call'.items, k)
                IN  /\ HoldsReplaced(r, rec)
                    /\ IF RowsAt(data_items, k) = {}
                       THEN r.category = rec.category /\ r.item_type = rec.item_type
                       ELSE \A old \in RowsAt(data_items, k) :
                               r.category = old.category /\ r.item_type = old.item_type]_vars

\* a list with two titles for one key was upserted onto a stored row: one row,
\* the title of the later record, the category of the stored row
C1_Witness ==
    /\ call.op = "upsert_items"
    /\ \E i, j \in 1..Len(call.items) :
        /\ i < j
        /\ KeyOf(call.items[i]) = KeyOf(call.items[j])
        /\ "title" \in DOMAIN call.items[i] \cap DOMAIN call.items[j]
        /\ call.items[i].title # call.items[j].title
        /\ LastRecord(call.items, KeyOf(call.items[j])) = call.items[j]
        /\ \E r \in RowsAt(data_items, KeyOf(call.items[j])) :
            /\ r.title = call.items[j].title
            /\ r.category # call.items[j].category

\* C2: in every reachable state, whatever the order of the statements and
\* commits of the calls of two sessions, no two committed rows of data_items
\* share the pair (source, source_id), and no two rows a session sees do.
C2_UniqueKey ==
    \A table \in {data_items} \cup {View(s) : s \in Sessions} :
        \A r1, r2 \in table :
            (r1.source = r2.source /\ r1.source_id = r2.source_id) => r1 = r2

\* an upsert_items and an insert_if_not_exists call are both between their
\* first statement and their commit, each has written rows, and the next
\* statement of one writes a key the other has written
C2_Witness ==
    /\ \A s \in Sessions : tx[s].pc = "execute" /\ tx[s].add # {}
    /\ tx[1].mode # tx[2].mode
    /\ \E s \in Sessions :
        /\ tx[s].i < Len(tx[s].db_items)
        /\ \E t \in Sessions \ {s} :
            \E r \in tx[t].add :
                KeyOf(r) \in KeysIn(Batch(tx[s].db_items, tx[s].i))

\* C3: when upsert_items writes a record whose key is stored, the row takes
\* title, content, metadata, tags, is_public, source_url and created_at from
\* the record and synced_at from the write; id, source, source_id, category
\* and item_type keep the values of the stored row.
C3_ReplacedColumns ==
    [][IsCall("upsert_items") =>
        \A old \in data_items :
            KeyOf(old) \in KeysIn(call'.items) =>
                \E r \in data_items' :
                    /\ SameIdentity(r, old)
                    /\ HoldsReplaced(r, LastRecord(call'.items, KeyOf(old)))
                    /\ r.synced_at = clock']_vars

\* a record with another category and item_type was upserted onto a stored
\* row: the row has the record's title and its own category and item_type
C3_Witness ==
    /\ call.op = "upsert_items"
    /\ clock = 2
    /\ \E r \in data_items :
        /\ KeyOf(r) \in KeysIn(call.items)
        /\ LET rec == LastRecord(call.items, KeyOf(r))
           IN  /\ "title" \in DOMAIN rec
               /\ r.title = rec.title
               /\ r.category # rec.category
               /\ r.item_type # rec.item_type
               /\ r.synced_at = 2

\* C4: insert_if_not_exists leaves every stored row whose key is in the list
\* as it was, synced_at included, and inserts one row for every key of the
\* list that was not stored.
C4_InsertOnly ==
    [][IsCall("insert_if_not_exists") =>
        /\ \A old \in data_items :
            KeyOf(old) \in KeysIn(call'.items) =>
                RowsAt(data_items', KeyOf(old)) = {old}
        /\ \A k \in KeysIn(call'.items) :
            RowsAt(data_items, k) = {} =>
                /\ Cardinality(RowsAt(data_items', k)) = 1
                /\ \A r \in RowsAt(data_items', k) :
                    Holds(r, LastRecord(call'.items, k))]_vars

\* insert-only call with a stored key, whose row kept its other title and its
\* earlier synced_at, and a new key, whose row was inserted
C4_Witness ==
    /\ call.op = "insert_if_not_exists"
    /\ \E r \in data_items :
        /\ KeyOf(r) \in KeysIn(call.items)
        /\ "title" \in DOMAIN LastRecord(call.items, KeyOf(r))
        /\ r.title # LastRecord(call.items, KeyOf(r)).title
        /\ r.synced_at < clock
    /\ \E r \in data_items :
        /\ KeyOf(r) \in KeysIn(call.items)
        /\ r.synced_at = clock
        /\ r.id = <<clock, 2>>

\* the rows without their synced_at
NoSyncedAt(table) == {[r EXCEPT !.synced_at = 0] : r \in table}

\* C5: upserting a list again right after upserting it leaves the rows as
\* they were but for synced_at; and on every table an upsert produces,
\* upserting the same list once more changes nothing but synced_at.
C5_Idempotent ==
    [][IsCall("upsert_items") =>
        /\ again' => NoSyncedAt(data_items') = NoSyncedAt(data_items)
        /\ NoSyncedAt(Written(data_items', call'.items, clock' + 1, "update"))
              = NoSyncedAt(data_items')]_vars

\* the same non-empty list was upserted twice in a row, the second time onto
\* the rows of the first
C5_Witness ==
    /\ again
    /\ call.op = "upsert_items"
    /\ clock = 2
    /\ Len(call.items) >= 2
    /\ Cardinality(data_items) >= 2
    /\ \A r \in data_items : r.synced_at = 2

\* C6: both operations return the length of the list they were given; for the
\* empty list that is 0 and the table is not written.
C6_ReturnsInputCount ==
    [][(IsCall("upsert_items") \/ IsCall("insert_if_not_exists")) =>
        /\ ret' = Len(call'.items)
        /\ call'.items = <<>> => (ret' = 0 /\ data_items' = data_items)]_vars

\* three records of one key were handed in: 3 is returned, one row is stored
C6_Witness ==
    /\ call.op \in {"upsert_items", "insert_if_not_exists"}
    /\ Len(call.items) = 3
    /\ Cardinality(KeysIn(call.items)) = 1
    /\ Cardinality(data_items) = 1
    /\ ret = 3

\* C7 as stated: after upsert_items, every row of a key of the list, inserted
\* or updated, has synced_at equal to the time of the write.
C7_SyncedAtIsWriteTime ==
    [][IsCall("upsert_items") =>
        \A k \in KeysIn(call'.items) :
            \A r \in RowsAt(data_items', k) : r.synced_at = clock']_vars

\* the row update_sync_state and get_cursor address
SyncRows(table, src) == {r \in table : r.source = src}

\* C8: update_sync_state without a cursor leaves the stored cursor of the
\* source as it was, and get_cursor returns the cursor of the latest call
\* that supplied one, whatever updates followed it.
C8_CursorPreserved ==
    [][/\ (IsCall("update_sync_state") /\ call'.cursor = None) =>
            \A old \in SyncRows(sync_state, call'.source) :
                \A r \in SyncRows(sync_state', call'.source) : r.cursor = old.cursor
       /\ (IsCall("get_cursor") /\ supplied'[call'.source].at > 0) =>
            ret' = supplied'[call'.source].cursor]_vars

\* get_cursor returned the cursor c1 that a call supplied before the latest
\* update of the source
C8_Witness ==
    /\ call.op = "get_cursor"
    /\ ret = "c1"
    /\ supplied[call.source].cursor = "c1"
    /\ \E r \in SyncRows(sync_state, call.source) :
        r.last_sync_at > supplied[call.source].at /\ r.status = "running"

\* C9: get_cursor writes nothing; for a source without a row it returns the
\* empty document, for a source with a row the cursor of the row.
C9_GetCursor ==
    [][IsCall("get_cursor") =>
        /\ sync_state' = sync_state
        /\ SyncRows(sync_state, call'.source) = {} => ret' = EmptyDoc
        /\ \A r \in SyncRows(sync_state, call'.source) : ret' = r.cursor]_vars

\* get_cursor was called for a source without a row while another source has
\* one: the empty document came back and no row was made
C9_Witness ==
    /\ call.op = "get_cursor"
    /\ SyncRows(sync_state, call.source) = {}
    /\ sync_state # {}
    /\ ret = EmptyDoc

\* C10: after every update_sync_state the source has one row, with the
\* status and items_synced of the call, last_sync_at the time of the call,
\* and error_message the error of the call, NULL when none was given.
C10_Overwritten ==
    [][IsCall("update_sync_state") =>
        /\ Cardinality(SyncRows(sync_state', call'.source)) = 1
        /\ \A r \in SyncRows(sync_state', call'.source) :
            /\ r.status = call'.status
            /\ r.items_synced = call'.items_synced
            /\ r.last_sync_at = clock'
            /\ r.error_message = call'.error]_vars

\* a source that had an error message was updated without an error: the
\* message is gone, status and count are those of the call
C10_Witness ==
    /\ call.op = "update_sync_state"
    /\ call.source \in failed
    /\ call.error = None
    /\ call.status = "idle"
    /\ call.items_synced = 2
    /\ \E r \in SyncRows(sync_state, call.source) :
        /\ r.error_message = None
        /\ r.status = "idle"
        /\ r.items_synced = 2
        /\ r.last_sync_at = clock

\* range(0, n, batch_size)
ChunkStarts(n) == {i \in 0..(n - 1) : i % batch_size = 0}

\* C20: in upsert_items every deduplicated record lies in exactly one chunk,
\* at its own place, and after the call the keys of the list have as many
\* rows as there are distinct keys.
C20_ChunksCoverAll ==
    [][IsCall("upsert_items") =>
        LET db == DbItems(call'.items)
        IN  /\ Len(db) = Cardinality(KeysIn(call'.items))
            /\ \A j \in 1..Len(db) :
                Cardinality({i \in ChunkStarts(Len(db)) :
                    \E p \in 1..Len(Batch(db, i)) :
                        i + p = j /\ Batch(db, i)[p] = db[j]}) = 1
            /\ Cardinality(UNION {RowsAt(data_items', k) : k \in KeysIn(call'.items)})
                  = Cardinality(KeysIn(call'.items))]_vars

\* three records with three keys were upserted into the empty table, one
\* more than a chunk holds: three rows
C20_Witness ==
    /\ call.op = "upsert_items"
    /\ clock = 1
    /\ Len(call.items) = 3
    /\ Cardinality(KeysIn(call.items)) = 3
    /\ Cardinality(data_items) = 3
    /\ \A k \in KeysIn(call.items) : Cardinality(RowsAt(data_items, k)) = 1

\* a record of the list lacks source or source_id
Malformed(items) ==
    \E i \in 1..Len(items) : ~({"source", "source_id"} \subseteq DOMAIN items[i])

\* C16: a list with a record that lacks source or source_id makes both
\* operations raise, and neither the table nor the session is touched, also
\* not for well-formed records earlier in the list.
C16_RejectedWhole ==
    [][((IsCall("upsert_items") \/ IsCall("insert_if_not_exists"))
            /\ Malformed(call'.items)) =>
        /\ ret' = "KeyError"
        /\ data_items' = data_items
        /\ tx' = tx]_vars

\* a list whose first record is well-formed and has a key that is not
\* stored, followed by a malformed one, was rejected: the key has no row,
\* the row of the earlier call is as it was
C16_Witness ==
    /\ clock = 2
    /\ Malformed(call.items)
    /\ ret = "KeyError"
    /\ Len(call.items) >= 2
    /\ {"source", "source_id"} \subseteq DOMAIN call.items[1]
    /\ RowsAt(data_items, <<call.items[1].source, call.items[1].source_id>>) = {}
    /\ \E r \in data_items : r.synced_at = 1

(***************************************************************************)
(* run                                                                     *)
(***************************************************************************)
\* the run of session w has ended
Ended(w) == run[w].pc = "done"

\* the row of the source of session w
OwnRows(table, w) == SyncRows(table, CollectorSource(w))

\* the first ErrLimit characters of a message
Cut(msg) ==
    CHOOSE str \in Strings :
        /\ Len(Text(str)) = (IF Len(Text(msg)) < ErrLimit THEN Len(Text(msg)) ELSE ErrLimit)
        /\ \A i \in 1..Len(Text(str)) : Text(str)[i] = Text(msg)[i]

\* C11: when collect returned the count n, the sync state of the source after
\* run is one row with status idle and items_synced n.
C11_IdleWithCount ==
    \A w \in Sessions :
        (Ended(w) /\ run[w].kind = "none") =>
            /\ Cardinality(OwnRows(sync_state, w)) = 1
            /\ \A r \in OwnRows(sync_state, w) :
                r.status = "idle" /\ r.items_synced = run[w].count

\* a run whose collect wrote three records in two chunks and returned 3 has
\* ended with the row idle and items_synced 3
C11_Witness ==
    \E w \in Sessions :
        /\ Ended(w) /\ run[w].kind = "none" /\ run[w].count = 3
        /\ Cardinality({r \in data_items : r.source = CollectorSource(w)}) = 3
        /\ \E r \in OwnRows(sync_state, w) : r.status = "idle" /\ r.items_synced = 3

\* C12: when collect raised, the sync state of the source after run is status
\* error with error_message the cause cut to the limit.
C12_ErrorRecorded ==
    \A w \in Sessions :
        (Ended(w) /\ run[w].kind \in {"app", "db"}) =>
            \E r \in OwnRows(sync_state, w) :
                r.status = "error" /\ r.error_message = Cut(run[w].exc)

\* C13: no exception leaves run, whatever failed inside the pass.
C13_NothingSurfaces ==
    \A w \in Sessions : run[w].result # "raised"

\* collect has written rows of this run before it raised
PartlyWrote(w) ==
    /\ run[w].upserted
    /\ run[w].count > 0
    /\ run[w].kind = "db" => tx[w].i > 0

\* C14: when collect raised after it wrote a part, items_synced of the source
\* after run is the value from before the run, status is error and
\* error_message is not empty.  Stated for the plainest case of the claim:
\* the upsert of collect is committed, then collect raises on its own with a
\* message that is not empty, and the source had a row before the run.
C14_ItemsSyncedKept ==
    \A w \in Sessions :
        (Ended(w) /\ run[w].kind = "app" /\ run[w].exc # "" /\ PartlyWrote(w)
                  /\ run[w].before >= 0) =>
            \E r \in OwnRows(sync_state, w) :
                /\ r.items_synced = run[w].before
                /\ r.status = "error"
                /\ r.error_message \notin {None, ""}

\* C15: when the statement of chunk k failed, the records of the chunks before
\* it are in the committed table as this call wrote them, and no record of
\* chunk k or a later chunk is.
C15_PriorChunksStand ==
    \A w \in Sessions :
        (tx[w].pc = "aborted" /\ tx[w].i > 0) =>
            /\ \A j \in 1..tx[w].i :
                \E r \in data_items :
                    /\ r.source = tx[w].db_items[j].source
                    /\ r.source_id = tx[w].db_items[j].source_id
                    /\ r.synced_at = tx[w].now
            /\ \A j \in (tx[w].i + 1)..Len(tx[w].db_items) :
                \A r \in data_items :
                    (r.source = tx[w].db_items[j].source
                       /\ r.source_id = tx[w].db_items[j].source_id) =>
                        r.synced_at # tx[w].now

\* what a run leaves in the row of its source, by its own outcome
Alone(r, w) ==
    /\ r.cursor = EmptyDoc
    /\ run'[w].kind = "none" =>
        r.status = "idle" /\ r.error_message = None /\ r.items_synced = run'[w].count
    /\ run'[w].kind = "app" =>
        r.status = "error" /\ r.error_message = Cut(run'[w].exc) /\ r.items_synced = 0
    /\ run'[w].kind = "db" =>
        r.status = "running" /\ r.error_message = None /\ r.items_synced = 0

\* C17: a step of the run of one source leaves the rows of every other source
\* as they were, and the row a run leaves behind is given by its own outcome.
C17_SourcesPartitioned ==
    [][\A w \in Sessions :
          /\ (run'[w] # run[w] \/ tx'[w] # tx[w]) =>
                \A src \in Sources \ {CollectorSource(w)} :
                    SyncRows(sync_state', src) = SyncRows(sync_state, src)
          /\ (run'[w] # run[w] /\ run'[w].pc = "done") =>
                IF run'[w].kind = "sync"
                THEN OwnRows(sync_state', w) = OwnRows(sync_state, w)
                ELSE /\ Cardinality(OwnRows(sync_state', w)) = 1
                     /\ \A r \in OwnRows(sync_state', w) : Alone(r, w)]_vars

\* session 2 ended its run with an error row while session 1 was between the
\* chunks of its upsert, its own row still running
C17_Witness ==
    /\ run[1].pc = "collect" /\ tx[1].pc = "execute" /\ tx[1].i = 2
    /\ Ended(2) /\ run[2].kind = "app"
    /\ \E r \in OwnRows(sync_state, 1) : r.status = "running"
    /\ \E r \in OwnRows(sync_state, 2) :
        r.status = "error" /\ r.last_sync_at > tx[1].now

(***************************************************************************)
(* process_webhook_data                                                    *)
(***************************************************************************)
\* the date of a delivered payload is an ISO date, alone or with a time of
\* day and an offset
HasDate(m) ==
    /\ "date" \in DOMAIN m
    /\ "str" \in DOMAIN m.date
    /\ \/ Len(m.date.str) = 1 /\ m.date.str[1] \in Days
       \/ /\ Len(m.date.str) = 4
          /\ m.date.str[1] \in Days /\ m.date.str[2] = "T"
          /\ m.date.str[3] \in Times /\ m.date.str[4] \in Offsets \cup {"Z"}

DateOnly(m) == HasDate(m) /\ Len(m.date.str) = 1

MinuteOfDay(time) ==
    CASE time = "00:00:00" -> 0
      [] time = "10:30:00" -> 630
      [] time = "10:30:59" -> 630
      [] time = "11:30:00" -> 690

OffsetMinutes(off) ==
    CASE off = "Z" -> 0 [] off = "+00:00" -> 0 [] off = "+01:00" -> 60

\* the minute as the payload writes it, and the minute in UTC
WallMinute(m) ==
    IF DateOnly(m) THEN <<m.date.str[1], 0>>
    ELSE <<m.date.str[1], MinuteOfDay(m.date.str[3])>>
UtcMinute(m) ==
    IF DateOnly(m) THEN <<m.date.str[1], 0>>
    ELSE <<m.date.str[1], MinuteOfDay(m.date.str[3]) - OffsetMinutes(m.date.str[4])>>

\* the same for the created_at of a stored row
RowWallMinute(r) == <<r.created_at.day, MinuteOfDay(r.created_at.time)>>
RowUtcMinute(r) ==
    <<r.created_at.day, MinuteOfDay(r.created_at.time) - OffsetMinutes(r.created_at.off)>>

\* C18 as stated: after a delivery, the store holds one row for the type and
\* the minute (the instant, to the minute) of every delivered metric.
C18_SameMinuteOneRow ==
    [][IsCall("process_webhook_data") =>
        \A i \in 1..Len(call'.metrics) :
            HasDate(call'.metrics[i]) =>
                Cardinality({r \in data_items' :
                                /\ r.item_type = Lower(call'.metrics[i].type)
                                /\ RowUtcMinute(r) = UtcMinute(call'.metrics[i])}) = 1]_vars

\* C18: after a delivery, the store holds one row for the type and the minute
\* as written in the payload (date, hour and minute in the payload's own
\* offset) of every delivered metric, whether the row was stored by this call
\* or an earlier one, and the row holds the value of the last metric of the
\* call with that type and written minute.
C18_SameWrittenMinute ==
    [][IsCall("process_webhook_data") =>
        \A i \in 1..Len(call'.metrics) :
            HasDate(call'.metrics[i]) =>
                LET ms   == call'.metrics
                    same == {j \in 1..Len(ms) :
                                /\ HasDate(ms[j])
                                /\ ms[j].type = ms[i].type
                                /\ WallMinute(ms[j]) = WallMinute(ms[i])}
                    last == CHOOSE j \in same : \A k \in same : k <= j
                    rows == {r \in data_items' :
                                /\ r.item_type = Lower(ms[i].type)
                                /\ RowWallMinute(r) = WallMinute(ms[i])}
                IN  /\ Cardinality(rows) = 1
                    /\ \A r \in rows :
                        /\ r.source_id[1] = Lower(ms[i].type)
                        /\ r.metadata.value = ms[last].value
                        /\ r.metadata.raw = ms[last]
                        /\ r.title[3] = ms[last].value]_vars

\* the second call delivered the heart rate of 10:30 again, a few seconds on
\* and with the value 70: the row the first call inserted now holds 70
C18_Witness ==
    /\ clock = 2
    /\ call.op = "process_webhook_data"
    /\ Cardinality(data_items) = 1
    /\ \E r \in data_items :
        /\ r.id[1] = 1 /\ r.synced_at = 2
        /\ r.created_at.time = "10:30:59"
        /\ r.metadata.value = 70

\* C19: a payload whose date is missing or does not parse is skipped and the
\* call does not fail: it returns the number of payloads with a date, each of
\* these is stored, every row the call wrote belongs to one of them, and a
\* date alone is stored with created_at at midnight UTC of the date.
C19_BadDateSkipped ==
    [][IsCall("process_webhook_data") =>
        LET ms   == call'.metrics
            good == {i \in 1..Len(ms) : HasDate(ms[i])}
            Of(r, i) == /\ r.item_type = Lower(ms[i].type)
                        /\ RowWallMinute(r) = WallMinute(ms[i])
        IN  /\ ret' = Cardinality(good)
            /\ \A i \in good :
                \E r \in data_items' :
                    /\ Of(r, i)
                    /\ r.synced_at = clock'
                    /\ DateOnly(ms[i]) =>
                        r.created_at = [day  |-> ms[i].date.str[1],
                                        time |-> "00:00:00", off |-> "+00:00"]
            /\ \A r \in data_items' \ data_items : \E i \in good : Of(r, i)]_vars

\* a call delivered a payload without a usable date and a payload with a date
\* alone: it returned 1 and the one row it stored is at midnight UTC
C19_Witness ==
    /\ call.op = "process_webhook_data"
    /\ Len(call.metrics) = 2
    /\ ~HasDate(call.metrics[1])
    /\ DateOnly(call.metrics[2])
    /\ ret = 1
    /\ Cardinality(data_items) = 1
    /\ \E r \in data_items :
        /\ r.synced_at = clock
        /\ r.created_at = [day |-> "2026-02-21", time |-> "00:00:00", off |-> "+00:00"]

(***************************************************************************)
(* run: order of the data write and the sync-state write                   *)
(***************************************************************************)
\* the rows of the keys the upsert of the run of session w was given, as that
\* upsert wrote them
RunRecords(table, w) ==
    {r \in table : <<r.source, r.source_id>> \in run[w].keys /\ r.synced_at = run[w].at}

\* C23: when the row of the source reports the idle result of a run, the
\* transaction of the upsert of that run is closed and every key it was given
\* is in the committed table as that upsert wrote it; while the transaction is
\* open the row of the source still says running.
C23_IdleAfterCommit ==
    \A w \in Sessions :
        /\ (Ended(w) /\ run[w].kind = "none") =>
              /\ tx[w].pc = "idle"
              /\ \A k \in run[w].keys :
                    \E r \in RunRecords(data_items, w) : <<r.source, r.source_id>> = k
        /\ tx[w].pc = "execute" =>
              \A r \in OwnRows(sync_state, w) : r.status = "running"

\* the second run of a session rewrote the three rows of its first run and
\* then reported idle with items_synced 3
C23_Witness ==
    \E w \in Sessions :
        /\ Ended(w) /\ run[w].kind = "none" /\ run[w].runs = 2
        /\ Cardinality(RunRecords(data_items, w)) = 3
        /\ \A r \in RunRecords(data_items, w) : r.id[1] < run[w].at
        /\ \E r \in OwnRows(sync_state, w) :
            r.status = "idle" /\ r.items_synced = 3 /\ r.last_sync_at > run[w].at

\* C22: the first write of a run sets status running and leaves the cursor as
\* it was, the status stays running until the last write of the run, and once
\* collect has returned or raised the status becomes idle or error: a run
\* that has ended has not left it at running.
C22_RunningThenIdleOrError ==
    /\ [][\A w \in Sessions :
            /\ (run[w].pc \in {"idle", "done"} /\ run'[w].pc = "collect") =>
                  /\ \A r \in OwnRows(sync_state', w) : r.status = "running"
                  /\ \A old \in OwnRows(sync_state, w) :
                        \A r \in OwnRows(sync_state', w) : r.cursor = old.cursor
            /\ (run[w].pc \in {"collect", "returned", "raised"}
                  /\ run'[w].pc # "done") =>
                  \A r \in OwnRows(sync_state', w) : r.status = "running"]_vars
    /\ \A w \in Sessions :
          (run[w].pc \in {"returned", "raised"}) ~>
              (\E r \in OwnRows(sync_state, w) : r.status \in {"idle", "error"})
    /\ [](\A w \in Sessions :
            (Ended(w) /\ run[w].kind \in {"none", "app", "db"}) =>
                \E r \in OwnRows(sync_state, w) : r.status \in {"idle", "error"})

(***************************************************************************)
(* overlapping runs of one source                                          *)
(***************************************************************************)
\* C21: with two runs of one source, every sync-state write of a run lands on
\* the one row of the source whatever the other run is doing: the first write
\* of a run sets running, and after the last write of a run the row holds the
\* status and items_synced of that run, so the row that remains is the one of
\* the run that wrote last.
C21_LastWriterWins ==
    [][\A w \in Sessions :
          /\ (run'[w] # run[w] /\ run'[w].pc = "collect" /\ run[w].pc # "collect") =>
                /\ Cardinality(OwnRows(sync_state', w)) = 1
                /\ \A r \in OwnRows(sync_state', w) :
                      r.status = "running" /\ r.items_synced = 0
          /\ (run'[w] # run[w] /\ run'[w].pc = "done" /\ run'[w].result = "normal") =>
                /\ Cardinality(OwnRows(sync_state', w)) = 1
                /\ \A r \in OwnRows(sync_state', w) :
                      /\ run'[w].kind = "none" =>
                            r.status = "idle" /\ r.items_synced = run'[w].count
                      /\ run'[w].kind = "app" =>
                            r.status = "error" /\ r.items_synced = 0]_vars

\* both sessions run the collector of s1: session 2 has ended and the row says
\* idle with its count 1, while session 1, which started first, is between
\* the chunks of its upsert
C21_Witness ==
    /\ run[1].source = run[2].source
    /\ run[1].pc = "collect" /\ tx[1].pc = "execute" /\ tx[1].i = 2
    /\ Ended(2) /\ run[2].kind = "none" /\ run[2].count = 1
    /\ \E r \in OwnRows(sync_state, 1) :
        r.status = "idle" /\ r.items_synced = 1 /\ r.last_sync_at > tx[1].now

====
